---------------------------- MODULE Spec2Model ----------------------------
(***************************************************************************)
(* Model of gestion/views/api_views.py: the checkout endpoint process_sale *)
(* (validation pass, then a commit pass inside transaction.atomic()) and   *)
(* the supplier-order endpoint add_product_to_order (lookup, then update   *)
(* or create).  The relational store is the state; every request is served *)
(* by a worker whose position in the handler is pc[w] / opc[w].  A query   *)
(* of the handler is one step, so that requests served by different        *)
(* workers interleave between queries.  Rows written inside an open        *)
(* transaction stay in tx[w] until the transaction commits (read committed *)
(* isolation, row lock held from the UPDATE until commit or rollback).     *)
(***************************************************************************)
EXTENDS Integers, Sequences, FiniteSets, TLC

\* ------------------------------------------------------------------ bounds
MaxStock == 2       \* initial Inventory quantities are 0..MaxStock
MaxQty   == 2       \* cart quantities are -1..MaxQty, or absent
RaceQty  == 1       \* cart quantities of two racing requests are 1..RaceQty
MaxOrderQty == 2    \* supplier-order quantities are 0..MaxOrderQty, text, or absent

\* The server's workers.  Each serves one request in a behaviour, so at most
\* two requests are in flight at the same time.
Workers == {"w1", "w2"}

\* ------------------------------------------------------------------ catalog
\* Product rows.  A row without a precio_venta field has precio_venta NULL.
Product ==
    (1 :> [is_active |-> TRUE,  precio_venta |-> 3]) @@
    (2 :> [is_active |-> TRUE]) @@
    (3 :> [is_active |-> FALSE, precio_venta |-> 1]) @@
    (4 :> [is_active |-> TRUE,  precio_venta |-> 2])

\* Products that have Inventory rows in the sales zone in this model.
StockedIds == {1, 2}

EmptyFn == [x \in {} |-> 0]

\* ------------------------------------------------------------------ state
VARIABLES
    sales_zone,     \* <<z>> when get_sales_zone() finds a zone, <<>> when None
    inventory,      \* committed Inventory rows of the sales zone: id -> quantity
    inventory0,     \* the Inventory rows of the initial state (never changes)
    sale,           \* committed Sale rows: set of [id, total_amount]
    saleItem,       \* committed SaleItem rows
    nextSaleId,     \* the Sale table's id sequence
    pc,             \* worker -> position in process_sale
    cart,           \* worker -> the request's cart
    idx,            \* worker -> index of the cart line the loop is at
    errors,         \* worker -> the validation pass's errors list
    rd,             \* worker -> product / inventory objects read at 287-288
    tx,             \* worker -> the open transaction's uncommitted rows
    response,       \* worker -> the JsonResponse of the request
    order,          \* SupplierOrder rows: pk -> [status, supplier]
    orderItem,      \* SupplierOrderItem rows
    nextItemId,     \* the SupplierOrderItem table's id sequence
    opc,            \* worker -> position in add_product_to_order
    oreq,           \* worker -> the request: user, order_pk and body
    olocal,         \* worker -> product, quantity, unit_price, existing_item
    oresponse       \* worker -> the JsonResponse of the request

saleVars == <<sales_zone, inventory, inventory0, sale, saleItem, nextSaleId,
              pc, cart, idx, errors, rd, tx, response>>

orderVars == <<order, orderItem, nextItemId, opc, oreq, olocal, oresponse>>

vars == <<saleVars, orderVars>>

\* ------------------------------------------------------------------ helpers
NoTx == [open |-> FALSE, sale |-> 0, total |-> 0, items |-> {}, writes |-> EmptyFn]
NoRead == [quantity |-> 0, sale_price |-> 0]
NoResponse == [status |-> "none", code |-> 0]

\* item.get('quantity', 0)
Quantity(item) == IF "quantity" \in DOMAIN item THEN item.quantity ELSE 0

\* product.precio_venta or Decimal('0.00')
SalePrice(p) ==
    IF "precio_venta" \in DOMAIN Product[p] /\ Product[p].precio_venta # 0
    THEN Product[p].precio_venta ELSE 0

\* Line 292 without the quantity
ItemPriceOfOneUnit(sale_price, quantity) == sale_price

\* Line 292: item_price = sale_price * Decimal(quantity)
ItemPrice(sale_price, quantity) == sale_price * quantity

\* Line 301 applied twice
DecrementedTwice(current, quantity) == current - quantity - quantity

\* Line 301: inventory.quantity -= quantity
Decremented(current, quantity) == current - quantity

\* Product.objects.get(id=product_id, is_active=True) finds a row
ActiveProduct(id) == id \in DOMAIN Product /\ Product[id].is_active

\* Rows locked by transactions other than w's
LockedByOther(w, p) == \E v \in Workers \ {w} : p \in DOMAIN tx[v].writes

\* Cart lines a request can carry: a product id (3 names an inactive product,
\* 5 no product) and a quantity, or no quantity at all.
CartLines ==
    [id : {1, 2, 3, 5}, quantity : -1 .. MaxQty] \cup [id : {1, 2, 3, 5}]

\* Carts of at most two lines
CartsOf(lines) ==
    {<<>>} \cup {<<a>> : a \in lines} \cup {<<a, b>> : a \in lines, b \in lines}

Carts == CartsOf(CartLines)

\* Request bodies: one that is not JSON, and one per cart
Bodies == {[json |-> FALSE, cart |-> <<>>]} \cup [json : {TRUE}, cart : Carts]

\* The carts of the requests that race: stocked products, positive quantities
RaceCarts == CartsOf([id : StockedIds, quantity : 1 .. RaceQty]) \ {<<>>}

RaceBodies == [json : {TRUE}, cart : RaceCarts]

\* ------------------------------------------------------------------ process_sale
InFlight(w) == pc[w] \notin {"idle", "done"}

\* The handler returns: its locals are gone, the response is recorded.
Respond(w, r) ==
    /\ pc' = [pc EXCEPT ![w] = "done"]
    /\ response' = [response EXCEPT ![w] = r]
    /\ idx' = [idx EXCEPT ![w] = 0]
    /\ errors' = [errors EXCEPT ![w] = <<>>]
    /\ rd' = [rd EXCEPT ![w] = NoRead]

\* The rows transaction w wrote, as they would be without the atomic block
RollbackKeepsWrites(w) ==
    /\ inventory' = [p \in DOMAIN inventory \cup DOMAIN tx[w].writes |->
                        IF p \in DOMAIN tx[w].writes THEN tx[w].writes[p]
                        ELSE inventory[p]]
    /\ sale' = sale \cup {[id |-> tx[w].sale, total_amount |-> 0]}
    /\ saleItem' = saleItem \cup tx[w].items
    /\ tx' = [tx EXCEPT ![w] = NoTx]
    /\ Respond(w, [status |-> "error", code |-> 500])

\* An exception leaves `with transaction.atomic()`: the transaction's rows are
\* discarded, and `except Exception` answers 500.
Rollback(w) ==
    /\ tx' = [tx EXCEPT ![w] = NoTx]
    /\ Respond(w, [status |-> "error", code |-> 500])
    /\ UNCHANGED <<inventory, sale, saleItem>>

\* Lines 236-246: parse the body, reject an empty cart, resolve the sales zone.
\* A body is [json |-> FALSE] when json.loads raises, else it carries a cart.
StartCall(w, bodies) ==
    /\ pc[w] = "idle"
    /\ \E body \in bodies :
          /\ cart' = [cart EXCEPT ![w] = body.cart]
          /\ IF ~body.json
               THEN Respond(w, [status |-> "error", code |-> 400])
             ELSE IF body.cart = <<>>
               THEN Respond(w, [status |-> "error", code |-> 400])
             ELSE IF sales_zone = <<>>
               THEN Respond(w, [status |-> "error", code |-> 500])
             ELSE /\ pc' = [pc EXCEPT ![w] = "validate"]
                  /\ idx' = [idx EXCEPT ![w] = 1]
                  /\ errors' = [errors EXCEPT ![w] = <<>>]
                  /\ response' = [response EXCEPT ![w] = NoResponse]
                  /\ rd' = rd
    /\ UNCHANGED <<orderVars, sales_zone, inventory, inventory0, sale, saleItem, nextSaleId, tx>>

\* Lines 251-266 without the comparison of line 258
LineErrorsNoStockCheck(item) ==
    IF ~ActiveProduct(item.id) THEN <<"no_encontrado">>
    ELSE IF item.id \notin DOMAIN inventory THEN <<"sin_stock">>
    ELSE <<>>

\* Lines 251-266: the errors one cart line adds to the list.
LineErrors(item) ==
    IF ~ActiveProduct(item.id) THEN <<"no_encontrado">>
    ELSE IF item.id \notin DOMAIN inventory THEN <<"sin_stock">>
    ELSE IF inventory[item.id] < Quantity(item) THEN <<"stock_insuficiente">>
    ELSE <<>>

\* Lines 250-269: one iteration of the validation loop; after the last line,
\* `if errors` answers 400 or lets the request go on to the commit pass.
Validate(w) ==
    /\ pc[w] = "validate"
    /\ LET errs == errors[w] \o LineErrors(cart[w][idx[w]])
       IN IF idx[w] < Len(cart[w])
            THEN /\ idx' = [idx EXCEPT ![w] = idx[w] + 1]
                 /\ errors' = [errors EXCEPT ![w] = errs]
                 /\ UNCHANGED <<pc, response, rd>>
          ELSE IF errs # <<>>
            THEN Respond(w, [status |-> "error", code |-> 400])
          ELSE /\ pc' = [pc EXCEPT ![w] = "begin"]
               /\ idx' = [idx EXCEPT ![w] = 1]
               /\ errors' = [errors EXCEPT ![w] = errs]
               /\ UNCHANGED <<response, rd>>
    /\ UNCHANGED <<orderVars, sales_zone, inventory, inventory0, sale, saleItem, nextSaleId,
                   cart, tx>>

\* Lines 272-280: the transaction opens and the Sale row is inserted with a
\* zero total; the row is the transaction's own until commit.
Begin(w) ==
    /\ pc[w] = "begin"
    /\ tx' = [tx EXCEPT ![w] = [open |-> TRUE, sale |-> nextSaleId, total |-> 0,
                                items |-> {}, writes |-> EmptyFn]]
    /\ nextSaleId' = nextSaleId + 1
    /\ pc' = [pc EXCEPT ![w] = "read"]
    /\ UNCHANGED <<orderVars, sales_zone, inventory, inventory0, sale, saleItem, cart,
                   idx, errors, rd, response>>

\* The Inventory rows transaction w reads: committed rows and its own writes.
Visible(w) ==
    [p \in DOMAIN inventory \cup DOMAIN tx[w].writes |->
        IF p \in DOMAIN tx[w].writes THEN tx[w].writes[p] ELSE inventory[p]]

\* Lines 284-288: Product.objects.get(id=...) and Inventory.objects.get(...);
\* either raises DoesNotExist when the row is not there.
CommitRead(w) ==
    /\ pc[w] = "read"
    /\ LET id == cart[w][idx[w]].id
       IN IF id \in DOMAIN Product /\ id \in DOMAIN Visible(w)
            THEN /\ rd' = [rd EXCEPT ![w] = [quantity |-> Visible(w)[id],
                                             sale_price |-> SalePrice(id)]]
                 /\ pc' = [pc EXCEPT ![w] = "write"]
                 /\ UNCHANGED <<inventory, sale, saleItem, tx, idx, errors, response>>
          ELSE Rollback(w)
    /\ UNCHANGED <<orderVars, sales_zone, inventory0, nextSaleId, cart>>

\* Lines 291-304: SaleItem.objects.create, inventory.quantity -= quantity,
\* inventory.save(), total_amount += item_price.  The UPDATE waits while
\* another open transaction holds the row.
CommitWrite(w) ==
    /\ pc[w] = "write"
    /\ LET item == cart[w][idx[w]]
           quantity == Quantity(item)
       IN /\ ~LockedByOther(w, item.id)
          /\ tx' = [tx EXCEPT ![w] =
                      [@ EXCEPT
                         !.items = @ \cup {[sale |-> tx[w].sale, line |-> idx[w],
                                            product |-> item.id, quantity |-> quantity,
                                            price_at_sale |-> rd[w].sale_price]},
                         !.writes = (item.id :> Decremented(rd[w].quantity, quantity)) @@ @,
                         !.total = @ + ItemPrice(rd[w].sale_price, quantity)]]
    /\ IF idx[w] < Len(cart[w])
         THEN /\ idx' = [idx EXCEPT ![w] = idx[w] + 1]
              /\ pc' = [pc EXCEPT ![w] = "read"]
       ELSE /\ pc' = [pc EXCEPT ![w] = "finish"]
            /\ idx' = idx
    /\ rd' = [rd EXCEPT ![w] = NoRead]
    /\ UNCHANGED <<orderVars, sales_zone, inventory, inventory0, sale, saleItem, nextSaleId,
                   cart, errors, response>>

\* Lines 307-313: sale.total_amount = total_amount, sale.save(), the
\* transaction commits and the success response is returned.
Finish(w) ==
    /\ pc[w] = "finish"
    /\ inventory' = Visible(w)
    /\ sale' = sale \cup {[id |-> tx[w].sale, total_amount |-> tx[w].total]}
    /\ saleItem' = saleItem \cup tx[w].items
    /\ tx' = [tx EXCEPT ![w] = NoTx]
    /\ Respond(w, [status |-> "success", code |-> 200])
    /\ UNCHANGED <<orderVars, sales_zone, inventory0, nextSaleId, cart>>

\* w's UPDATE waits for a row that v holds
WaitsFor(w, v) ==
    /\ w # v
    /\ pc[w] = "write"
    /\ cart[w][idx[w]].id \in DOMAIN tx[v].writes

\* Line 302 inside a wait cycle: the database breaks the deadlock by failing
\* one waiter's UPDATE, and the exception rolls that transaction back.
DeadlockAbort(w) ==
    /\ \E v \in Workers : WaitsFor(w, v) /\ WaitsFor(v, w)
    /\ Rollback(w)
    /\ UNCHANGED <<orderVars, sales_zone, inventory0, nextSaleId, cart>>

\* Another request of the application deletes a sales-zone Inventory row that
\* no open transaction holds, while a checkout is past its validation pass.
RemoveInventory(p) ==
    /\ p \in DOMAIN inventory
    /\ \A w \in Workers : p \notin DOMAIN tx[w].writes
    /\ \E w \in Workers : pc[w] \in {"begin", "read", "write", "finish"}
    /\ inventory' = [q \in DOMAIN inventory \ {p} |-> inventory[q]]
    /\ UNCHANGED <<orderVars, sales_zone, inventory0, sale, saleItem, nextSaleId, pc,
                   cart, idx, errors, rd, tx, response>>

\* ------------------------------------------------------------------ add_product_to_order
\* ProductSupplier rows.  A row without a costo field has costo NULL.
ProductSupplier ==
    { [product |-> 1, supplier |-> "A"],
      [product |-> 2, supplier |-> "A", costo |-> 4],
      [product |-> 3, supplier |-> "A", costo |-> 1],
      [product |-> 4, supplier |-> "B", costo |-> 1] }

\* request.user: a superuser without profile, three profiles, a plain user
Users ==
    { [is_superuser |-> TRUE],
      [is_superuser |-> FALSE, role |-> "admin"],
      [is_superuser |-> FALSE, role |-> "bodega"],
      [is_superuser |-> FALSE, role |-> "ventas"],
      [is_superuser |-> FALSE] }

\* Lines 345-346: superuser, or a profile whose role is admin or bodega
Permitted(user) ==
    user.is_superuser
    \/ ("role" \in DOMAIN user /\ (user.role = "admin" \/ user.role = "bodega"))

\* int(): the text of a number converts, other text raises ValueError
Digits == ("0" :> 0) @@ ("1" :> 1) @@ ("2" :> 2)

\* Line 357: int(data.get('quantity', 1)) as <<n>>, or <<>> when int() raises
IntQuantity(data) ==
    IF "quantity" \notin DOMAIN data THEN <<1>>
    ELSE IF "int" \in DOMAIN data.quantity THEN <<data.quantity.int>>
    ELSE IF data.quantity.text \in DOMAIN Digits THEN <<Digits[data.quantity.text]>>
    ELSE <<>>

\* Lines 365-374: the supplier's cost, or the sale price when there is none
UnitPrice(ps, product_id) ==
    IF "costo" \in DOMAIN ps /\ ps.costo # 0 THEN ps.costo
    ELSE Product[product_id].precio_venta

\* .filter(...).first(): the matching row of lowest id, as a set of 0 or 1 rows
First(rows) == {r \in rows : \A o \in rows : r.id <= o.id}

ItemsOf(order_pk) == {i \in orderItem : i.order = order_pk}

RECURSIVE TotalQuantity(_)
TotalQuantity(rows) ==
    IF rows = {} THEN 0
    ELSE LET r == CHOOSE x \in rows : TRUE
         IN r.quantity + TotalQuantity(rows \ {r})

\* Line 352 without the comparison
ModifiableAlways(o) == TRUE

\* Line 352: order.status != 'PENDING' refuses the request
Modifiable(o) == o.status = "PENDING"

NoLocal == [product |-> 0, quantity |-> 0, unit_price |-> 0, existing_item |-> {}]
NoRequest == [user |-> [is_superuser |-> FALSE], order_pk |-> 0, data |-> [json |-> FALSE]]
NoOrderResponse == [status |-> "none", code |-> 0]

OrderError(w, code) ==
    /\ opc' = [opc EXCEPT ![w] = "done"]
    /\ oresponse' = [oresponse EXCEPT ![w] = [status |-> "error", code |-> code]]
    /\ olocal' = olocal

\* Lines 345-377: the checks of the request, then the lookup of the product's
\* line in the order.  A request is [user, order_pk, data]; data is
\* [json |-> FALSE] when json.loads raises.
Lookup(w, requests) ==
    /\ opc[w] = "idle"
    /\ \E req \in requests :
          /\ oreq' = [oreq EXCEPT ![w] = req]
          /\ IF ~Permitted(req.user) THEN OrderError(w, 403)
             ELSE IF req.order_pk \notin DOMAIN order THEN OrderError(w, 404)
             ELSE IF ~Modifiable(order[req.order_pk]) THEN OrderError(w, 400)
             ELSE IF ~req.data.json THEN OrderError(w, 400)
             ELSE IF IntQuantity(req.data) = <<>> THEN OrderError(w, 500)
             ELSE IF IntQuantity(req.data)[1] <= 0 THEN OrderError(w, 400)
             ELSE IF ~ActiveProduct(req.data.product_id) THEN OrderError(w, 404)
             ELSE LET links == {ps \in ProductSupplier :
                                   /\ ps.product = req.data.product_id
                                   /\ ps.supplier = order[req.order_pk].supplier}
                  IN IF links = {} THEN OrderError(w, 400)
                     ELSE /\ olocal' = [olocal EXCEPT ![w] =
                                [product |-> req.data.product_id,
                                 quantity |-> IntQuantity(req.data)[1],
                                 unit_price |-> UnitPrice(CHOOSE ps \in links : TRUE,
                                                          req.data.product_id),
                                 existing_item |->
                                     First({i \in ItemsOf(req.order_pk) :
                                               i.product = req.data.product_id})]]
                          /\ opc' = [opc EXCEPT ![w] = "found"]
                          /\ oresponse' = oresponse
    /\ UNCHANGED <<saleVars, order, orderItem, nextItemId>>

\* Lines 388-393 alone: a new item whether or not the product has one
UpsertedAlwaysCreates(w) ==
    orderItem \cup
       {[id |-> nextItemId, order |-> oreq[w].order_pk,
         product |-> olocal[w].product, quantity |-> olocal[w].quantity,
         unit_price |-> olocal[w].unit_price]}

\* Lines 379-394: the rows of the table after the update of existing_item or
\* the creation of a new item.  save() writes the fields of the object read
\* at line 377, under its id.
Upserted(w) ==
    IF olocal[w].existing_item # {}
    THEN LET old == CHOOSE i \in olocal[w].existing_item : TRUE
         IN {i \in orderItem : i.id # old.id} \cup
            {[old EXCEPT !.quantity = old.quantity + olocal[w].quantity,
                         !.unit_price = olocal[w].unit_price]}
    ELSE orderItem \cup
            {[id |-> nextItemId, order |-> oreq[w].order_pk,
              product |-> olocal[w].product, quantity |-> olocal[w].quantity,
              unit_price |-> olocal[w].unit_price]}

\* Lines 379-424: update or create, then list the order's items and answer.
Upsert(w) ==
    /\ opc[w] = "found"
    /\ orderItem' = Upserted(w)
    /\ nextItemId' = IF olocal[w].existing_item # {} THEN nextItemId ELSE nextItemId + 1
    /\ opc' = [opc EXCEPT ![w] = "done"]
    /\ oresponse' = [oresponse EXCEPT ![w] =
          [status |-> "success", code |-> 200,
           action |-> IF olocal[w].existing_item # {} THEN "updated" ELSE "created",
           total_items |-> Cardinality({i \in orderItem' : i.order = oreq[w].order_pk}),
           total_quantity |->
               TotalQuantity({i \in orderItem' : i.order = oreq[w].order_pk})]]
    /\ UNCHANGED <<saleVars, order, oreq, olocal>>

\* Requests a client can send
OrderData ==
    {[json |-> FALSE]}
    \cup [json : {TRUE}, product_id : {1, 2, 4, 5}]
    \cup [json : {TRUE}, product_id : {1, 2, 4, 5},
          quantity : [int : 0 .. MaxOrderQty] \cup [text : {"2", "x"}]]

OrderRequests == [user : Users, order_pk : {1, 2, 3}, data : OrderData]

\* The requests that race: a superuser adds units of products 1 and 2
RaceOrderRequests ==
    [user : {[is_superuser |-> TRUE]}, order_pk : {1, 2},
     data : [json : {TRUE}, product_id : {1, 2}, quantity : [int : 1 .. MaxOrderQty]]]

\* ------------------------------------------------------------------ specifications
InitStore(zones, rows) ==
    /\ sales_zone \in zones
    /\ inventory \in rows
    /\ inventory0 = inventory
    /\ sale = {}
    /\ saleItem = {}
    /\ nextSaleId = 1
    /\ pc = [w \in Workers |-> "idle"]
    /\ cart = [w \in Workers |-> <<>>]
    /\ idx = [w \in Workers |-> 0]
    /\ errors = [w \in Workers |-> <<>>]
    /\ rd = [w \in Workers |-> NoRead]
    /\ tx = [w \in Workers |-> NoTx]
    /\ response = [w \in Workers |-> NoResponse]

\* Inventory tables in which the products of S have rows
Rows(S, quantities) == [S -> quantities]

\* The SupplierOrderItem rows of the initial state
InitialOrderItems ==
    {[id |-> 1, order |-> 2, product |-> 4, quantity |-> 1, unit_price |-> 1]}

\* The supplier orders: order 1 of supplier A, order 2 of supplier B, which
\* was received with one item.
InitOrders(statuses) ==
    /\ order \in {(1 :> [status |-> st, supplier |-> "A"]) @@
                  (2 :> [status |-> "RECEIVED", supplier |-> "B"]) : st \in statuses}
    /\ orderItem = InitialOrderItems
    /\ nextItemId = 2
    /\ opc = [w \in Workers |-> "idle"]
    /\ oreq = [w \in Workers |-> NoRequest]
    /\ olocal = [w \in Workers |-> NoLocal]
    /\ oresponse = [w \in Workers |-> NoOrderResponse]

\* Two requests race on a store in which every stocked product has a row.
Init ==
    /\ InitStore({<<"Ventas">>}, Rows(StockedIds, 1 .. MaxStock))
    /\ InitOrders({"PENDING"})

Next ==
    \/ \E w \in Workers :
          /\ w = "w2" => pc["w1"] # "idle"
          /\ StartCall(w, RaceBodies)
    \/ \E w \in Workers : Validate(w)
    \/ \E w \in Workers : Begin(w)
    \/ \E w \in Workers : CommitRead(w)
    \/ \E w \in Workers : CommitWrite(w)
    \/ \E w \in Workers : Finish(w)
    \/ \E w \in Workers : DeadlockAbort(w)
    \/ \E p \in StockedIds : RemoveInventory(p)

Spec == Init /\ [][Next]_vars

\* One request runs alone, on any store and with any body.
InitSerial ==
    /\ InitStore({<<"Ventas">>, <<>>},
                 UNION {Rows(S, 0 .. MaxStock) : S \in SUBSET StockedIds})
    /\ InitOrders({"PENDING"})

NextSerial ==
    \/ StartCall("w1", Bodies)
    \/ Validate("w1")
    \/ Begin("w1")
    \/ CommitRead("w1")
    \/ CommitWrite("w1")
    \/ Finish("w1")

SpecSerial == InitSerial /\ [][NextSerial]_vars

\* Two add_product_to_order requests, the second after the first has returned.
InitOrder ==
    /\ InitStore({<<"Ventas">>}, {[p \in StockedIds |-> MaxStock]})
    /\ InitOrders({"PENDING", "RECEIVED"})

NextOrderSerial ==
    \/ Lookup("w1", OrderRequests)
    \/ Upsert("w1")
    \/ opc["w1"] = "done" /\ Lookup("w2", OrderRequests)
    \/ Upsert("w2")

SpecOrderSerial == InitOrder /\ [][NextOrderSerial]_vars

\* Two add_product_to_order requests in flight at the same time.
NextOrder ==
    \/ \E w \in Workers :
          /\ w = "w2" => opc["w1"] # "idle"
          /\ Lookup(w, RaceOrderRequests)
    \/ \E w \in Workers : Upsert(w)

SpecOrder == InitOrder /\ [][NextOrder]_vars

\* ------------------------------------------------------------------ properties
\* Units of product p a cart asks for, over all its lines
RECURSIVE Requested(_, _)
Requested(c, p) ==
    IF c = <<>> THEN 0
    ELSE (IF Head(c).id = p THEN Quantity(Head(c)) ELSE 0) + Requested(Tail(c), p)

\* Sum over the cart lines of price x quantity
RECURSIVE CartTotal(_)
CartTotal(c) ==
    IF c = <<>> THEN 0
    ELSE SalePrice(Head(c).id) * Quantity(Head(c)) + CartTotal(Tail(c))

\* Units of product p in a set of SaleItem rows
RECURSIVE Sold(_, _)
Sold(rows, p) ==
    IF rows = {} THEN 0
    ELSE LET r == CHOOSE x \in rows : TRUE
         IN (IF r.product = p THEN r.quantity ELSE 0) + Sold(rows \ {r}, p)

RECURSIVE ItemsTotal(_)
ItemsTotal(rows) ==
    IF rows = {} THEN 0
    ELSE LET r == CHOOSE x \in rows : TRUE
         IN r.price_at_sale * r.quantity + ItemsTotal(rows \ {r})

InCommitPass(w) == pc[w] \in {"begin", "read", "write", "finish"}

StoreUntouched == inventory = inventory0 /\ sale = {} /\ saleItem = {}

\* Every line of w1's cart names an active product with a sales-zone row
\* holding at least the line's quantity, in the store the request started on.
AllLinesInStock ==
    /\ cart["w1"] # <<>>
    /\ sales_zone # <<>>
    /\ \A i \in 1 .. Len(cart["w1"]) :
          LET item == cart["w1"][i]
          IN /\ ActiveProduct(item.id)
             /\ item.id \in DOMAIN inventory0
             /\ Quantity(item) <= inventory0[item.id]

\* C1: a request that runs alone with a non-empty cart whose every line names
\* an active product with a sales-zone Inventory row holding at least the
\* line's quantity succeeds; there is then exactly one Sale, one SaleItem per
\* cart line (the line's product and quantity, the product's price), every
\* Inventory row is lower by the units the cart asks of its product, and the
\* Sale's total_amount is the sum of price_at_sale x quantity.
C1_CheckoutCommits ==
    (pc["w1"] = "done" /\ AllLinesInStock) =>
        /\ response["w1"] = [status |-> "success", code |-> 200]
        /\ Cardinality(sale) = 1
        /\ Cardinality(saleItem) = Len(cart["w1"])
        /\ \A i \in 1 .. Len(cart["w1"]) :
              \E r \in saleItem :
                 /\ r.line = i
                 /\ r.sale \in {s.id : s \in sale}
                 /\ r.product = cart["w1"][i].id
                 /\ r.quantity = Quantity(cart["w1"][i])
                 /\ r.price_at_sale = SalePrice(r.product)
        /\ DOMAIN inventory = DOMAIN inventory0
        /\ \A p \in DOMAIN inventory :
              inventory[p] = inventory0[p] - Requested(cart["w1"], p)
        /\ \A s \in sale :
              /\ s.total_amount = ItemsTotal(saleItem)
              /\ s.total_amount = CartTotal(cart["w1"])

\* Two units of product 1 (price 3) from a stock of 2: total 6, stock 0
C1_Witness ==
    /\ pc["w1"] = "done"
    /\ AllLinesInStock
    /\ cart["w1"] = <<[id |-> 1, quantity |-> 2]>>
    /\ inventory0[1] = 2
    /\ inventory[1] = 0
    /\ sale = {[id |-> 1, total_amount |-> 6]}

\* Some line of w1's cart asks for more than the sales-zone row of its product
SomeLineShort ==
    \E i \in 1 .. Len(cart["w1"]) :
        /\ cart["w1"][i].id \in DOMAIN inventory0
        /\ Quantity(cart["w1"][i]) > inventory0[cart["w1"][i].id]

\* C2: a request whose cart has a line asking for more than the sales-zone
\* Inventory quantity of its product never enters the commit pass, is answered
\* with an error, and leaves the Sale, SaleItem and Inventory rows as they were.
C2_ShortStockRejected ==
    SomeLineShort =>
        /\ ~InCommitPass("w1")
        /\ StoreUntouched
        /\ pc["w1"] = "done" => response["w1"].status = "error"

\* A first line in stock, a second line short: the 400 answer
C2_Witness ==
    /\ pc["w1"] = "done"
    /\ Len(cart["w1"]) = 2
    /\ ActiveProduct(cart["w1"][1].id)
    /\ cart["w1"][1].id \in DOMAIN inventory0
    /\ Quantity(cart["w1"][1]) \in 1 .. inventory0[cart["w1"][1].id]
    /\ ActiveProduct(cart["w1"][2].id)
    /\ cart["w1"][2].id \in DOMAIN inventory0
    /\ Quantity(cart["w1"][2]) > inventory0[cart["w1"][2].id]
    /\ response["w1"] = [status |-> "error", code |-> 400]
    /\ StoreUntouched

\* C3: a step in which a request leaves its commit pass with a server error
\* changes no committed Sale, SaleItem or Inventory row and leaves nothing of
\* its transaction behind; and a request leaves the commit pass only with the
\* success answer or with that server error.
C3_CommitPassAtomic ==
    [][\A w \in Workers :
          (InCommitPass(w) /\ pc'[w] = "done") =>
              \/ response'[w] = [status |-> "success", code |-> 200]
              \/ /\ response'[w] = [status |-> "error", code |-> 500]
                 /\ inventory' = inventory
                 /\ sale' = sale
                 /\ saleItem' = saleItem
                 /\ tx'[w] = NoTx]_vars

\* A request of two lines answered 500 after the row of its second line was
\* deleted, the row of its first line still there and nothing sold by it
C3_Witness ==
    \E w \in Workers :
        /\ pc[w] = "done"
        /\ response[w] = [status |-> "error", code |-> 500]
        /\ Len(cart[w]) = 2
        /\ cart[w][1].id # cart[w][2].id
        /\ cart[w][1].id \in DOMAIN inventory
        /\ cart[w][2].id \notin DOMAIN inventory
        /\ inventory[cart[w][1].id] = inventory0[cart[w][1].id]
        /\ sale = {}
        /\ saleItem = {}

\* C7: a request holds no row between its validation pass and its commit
\* pass (validation opens no transaction and writes nothing); and a sales-zone
\* quantity below zero, for a product that no cart lists twice, means that both
\* requests passed validation and committed.
C7_NoLockBetweenPasses ==
    /\ \A w \in Workers : pc[w] \in {"validate", "begin"} => tx[w] = NoTx
    /\ \A p \in DOMAIN inventory :
          (/\ inventory[p] < 0
           /\ \A w \in Workers :
                 Cardinality({i \in 1 .. Len(cart[w]) : cart[w][i].id = p}) <= 1)
          => \A w \in Workers :
                /\ response[w] = [status |-> "success", code |-> 200]
                /\ Requested(cart[w], p) \in 1 .. inventory0[p]

\* Both requests ask one line of product p, each within the initial quantity
\* and together beyond it; both are answered success and the row is negative
C7_Witness ==
    \E p \in StockedIds :
        /\ p \in DOMAIN inventory
        /\ inventory[p] < 0
        /\ \A w \in Workers :
              /\ pc[w] = "done"
              /\ response[w].status = "success"
              /\ Len(cart[w]) = 1
              /\ cart[w][1].id = p
              /\ cart[w][1].quantity <= inventory0[p]
        /\ cart["w1"][1].quantity + cart["w2"][1].quantity > inventory0[p]

\* C8: when no checkout transaction is open, every sales-zone Inventory
\* quantity is its initial quantity minus the units of the committed SaleItems
\* of its product.
C8_StockConserved ==
    (\A w \in Workers : ~InCommitPass(w)) =>
        \A p \in DOMAIN inventory : inventory[p] = inventory0[p] - Sold(saleItem, p)

\* C9: requests that run one at a time on non-negative quantities leave every
\* sales-zone Inventory quantity non-negative.
C9_StockNeverNegative ==
    (\A p \in DOMAIN inventory0 : inventory0[p] >= 0) =>
        \A p \in DOMAIN inventory : inventory[p] >= 0

\* C10: no request raises an Inventory quantity or records a Sale with a
\* negative total_amount.
C10_NoIncreaseNoNegativeTotal ==
    /\ \A p \in DOMAIN inventory \cap DOMAIN inventory0 : inventory[p] <= inventory0[p]
    /\ \A s \in sale : s.total_amount >= 0

\* w's request is one the endpoint accepts for order 1 and product p
Accepted(w, p) ==
    /\ Permitted(oreq[w].user)
    /\ oreq[w].order_pk = 1
    /\ order[1].status = "PENDING"
    /\ oreq[w].data.json
    /\ oreq[w].data.product_id = p
    /\ ActiveProduct(p)
    /\ \E ps \in ProductSupplier : ps.product = p /\ ps.supplier = order[1].supplier
    /\ IntQuantity(oreq[w].data) # <<>>
    /\ IntQuantity(oreq[w].data)[1] > 0

\* C4: after two requests, the second started when the first had returned, by
\* permitted callers for the same active product of the supplier of the same
\* PENDING order, with quantities q1 > 0 and q2 > 0, the order holding no item
\* of the product before: the order has exactly one item of the product, its
\* quantity is q1 + q2, and the answers say 'created' and then 'updated'.
C4_SecondAddMerges ==
    \A p \in DOMAIN Product :
        (/\ opc["w1"] = "done" /\ opc["w2"] = "done"
         /\ Accepted("w1", p) /\ Accepted("w2", p))
        => /\ \E i \in orderItem :
                 /\ {j \in ItemsOf(1) : j.product = p} = {i}
                 /\ i.quantity = IntQuantity(oreq["w1"].data)[1]
                                 + IntQuantity(oreq["w2"].data)[1]
           /\ oresponse["w1"].status = "success" /\ oresponse["w1"].action = "created"
           /\ oresponse["w2"].status = "success" /\ oresponse["w2"].action = "updated"

\* An admin adds 1 unit of product 2, then a bodega user adds 2: one item of 3
C4_Witness ==
    /\ opc["w1"] = "done" /\ opc["w2"] = "done"
    /\ Accepted("w1", 2) /\ Accepted("w2", 2)
    /\ oreq["w1"].user = [is_superuser |-> FALSE, role |-> "admin"]
    /\ oreq["w2"].user = [is_superuser |-> FALSE, role |-> "bodega"]
    /\ IntQuantity(oreq["w1"].data) = <<1>>
    /\ IntQuantity(oreq["w2"].data) = <<2>>
    /\ ItemsOf(1) = {[id |-> 2, order |-> 1, product |-> 2, quantity |-> 3,
                      unit_price |-> 4]}

\* C5: a request on an order whose status is not PENDING is answered with an
\* error at once, whatever its body, and the order's items stay the rows they
\* were.
C5_NonPendingUntouched ==
    /\ \A w \in Workers :
          (/\ opc[w] # "idle"
           /\ oreq[w].order_pk \in DOMAIN order
           /\ order[oreq[w].order_pk].status # "PENDING")
          => /\ opc[w] = "done"
             /\ oresponse[w].status = "error"
    /\ \A o \in DOMAIN order :
          order[o].status # "PENDING" =>
              ItemsOf(o) = {i \in InitialOrderItems : i.order = o}

\* A superuser asks for 2 more units of product 4 on the received order 2,
\* which holds an item of that product: error 400
C5_Witness ==
    \E w \in Workers :
        /\ opc[w] = "done"
        /\ oreq[w] = [user |-> [is_superuser |-> TRUE], order_pk |-> 2,
                      data |-> [json |-> TRUE, product_id |-> 4,
                                quantity |-> [int |-> 2]]]
        /\ oresponse[w] = [status |-> "error", code |-> 400]
        /\ ItemsOf(2) = InitialOrderItems

\* C6: there is at most one SupplierOrderItem per (order, product) pair.
C6_OneItemPerProduct ==
    \A i \in orderItem, j \in orderItem :
        (i.order = j.order /\ i.product = j.product) => i = j

=============================================================================
